---- MODULE Spec2Model ----
(***************************************************************************)
(* Model of the discretization layer of bkm82/1D_Heat_Diffusion:          *)
(*   src/src/solver/mesher.py          grid, differentiation_matrix,      *)
(*                                     boundary_condition, side_selector  *)
(*   src/src/solver/cartesian_mesh.py  CartesianMesh                      *)
(* Floating point numbers are modelled as exact rationals <<num, den>>    *)
(* in lowest terms with den > 0. Python exceptions are modelled as the    *)
(* "exc" field of the record an operation returns ("none" = no raise).    *)
(***************************************************************************)
EXTENDS Integers, Sequences, FiniteSets, TLC

VARIABLES
    pc,                     \* "new": inputs chosen, __init__ not run; "mesh": constructed; "failed": __init__ raised
    dimensions,             \* CartesianMesh.dimensions (the constructor argument before construction)
    n_cells,                \* CartesianMesh.n_cells
    cordinates,             \* CartesianMesh.cordinates
    mesh_type,              \* CartesianMesh.mesh_type, a sequence of characters
    grid,                   \* CartesianMesh.grid: dict name -> grid object
    differentiation_matrix, \* CartesianMesh.differentiation_matrix: dict name -> differentiation_matrix object
    boundary_condition,     \* CartesianMesh.boundary_condition: dict name -> boundary_condition object
    laplacian,              \* CartesianMesh.laplacian (Unset while the attribute does not exist)
    call,                   \* the last call made on the mesh: [op, side, value]
    outcome,                \* how the last call ended: "none" (returned) or the exception raised
    calls,                  \* history of the calls made since construction (recorded by SpecTest only)
    axis_grid,              \* a grid constructed on its own (SpecGrid): [n_cells, cordinates, mesh_type, exc, value]
    mesh1d                  \* a heat_diffusion_mesh or linear_convection_mesh (SpecMesher): [args, state, object]

vars == <<pc, dimensions, n_cells, cordinates, mesh_type, grid, differentiation_matrix,
          boundary_condition, laplacian, call, outcome, calls, axis_grid, mesh1d>>

mesh_vars == <<dimensions, n_cells, cordinates, mesh_type, grid, differentiation_matrix,
               boundary_condition, laplacian>>

-----------------------------------------------------------------------------
(* Bounds of the model *)

\* largest cell count of a one-dimensional mesh or grid
MaxCells == 4

\* longest recorded call history (SpecTest)
MaxCalls == 2

-----------------------------------------------------------------------------
(* Exact rational arithmetic standing for Python/numpy floats *)

Abs(x) == IF x < 0 THEN -x ELSE x

RECURSIVE GCD(_, _)
GCD(a, b) == IF b = 0 THEN a ELSE GCD(b, a % b)

\* n/d in lowest terms, d # 0
Rat(n, d) ==
    LET g == GCD(Abs(n), Abs(d))
        s == IF d < 0 THEN -1 ELSE 1
    IN  <<(s * n) \div g, (s * d) \div g>>

R(n) == <<n, 1>>
Half == <<1, 2>>

RAdd(a, b) ==
    IF a[1] = 0 THEN b
    ELSE IF b[1] = 0 THEN a
    ELSE Rat(a[1] * b[2] + b[1] * a[2], a[2] * b[2])
RNeg(a) == <<-a[1], a[2]>>
RSub(a, b) == RAdd(a, RNeg(b))
RMul(a, b) ==
    IF a[1] = 0 \/ b[1] = 0 THEN R(0)
    ELSE IF a = R(1) THEN b
    ELSE IF b = R(1) THEN a
    ELSE Rat(a[1] * b[1], a[2] * b[2])
\* b # 0; Python raises ZeroDivisionError otherwise, which the callers test first
RDiv(a, b) == Rat(a[1] * b[2], a[2] * b[1])
RIsZero(a) == a[1] = 0
RLess(a, b) == a[1] * b[2] < b[1] * a[2]

-----------------------------------------------------------------------------
(* Strings that the code inspects character by character *)

FiniteVolume == <<"f","i","n","i","t","e","_","v","o","l","u","m","e">>
FiniteDifference == <<"f","i","n","i","t","e","_","d","i","f","f","e","r","e","n","c","e">>
Finite == <<"f","i","n","i","t","e">>
EmptyString == <<>>
Fvm == <<"f","v","m">>

\* Python's `s in t` for two strings: s occurs in t as a contiguous substring
StrIn(s, t) ==
    \E i \in 0..(Len(t) - Len(s)) : SubSeq(t, i + 1, i + Len(s)) = s

-----------------------------------------------------------------------------
(* Results of operations that may raise *)

NoExc == "none"
Unset == "unset"

\* a Python index (negative counts from the end) into a sequence of length n, 1-based
PyIndex(i, n) == IF i < 0 THEN n + i + 1 ELSE i + 1
InRange(i, n) == PyIndex(i, n) \in 1..n

-----------------------------------------------------------------------------
(* numpy helpers *)

\* np.zeros(n)
zeros(n) == [i \in 1..n |-> R(0)]

\* np.identity(n)
identity(n) == [i \in 1..n |-> [j \in 1..n |-> IF i = j THEN R(1) ELSE R(0)]]

\* matrix * scalar
MatScale(m, c) == [i \in DOMAIN m |-> [j \in DOMAIN m[i] |-> RMul(m[i][j], c)]]

\* matrix + matrix (same shape)
MatAdd(a, b) == [i \in DOMAIN a |-> [j \in DOMAIN a[i] |-> RAdd(a[i][j], b[i][j])]]

\* np.kron(a, b) for square a (p x p) and b (q x q):
\* kron[i*q + k, j*q + l] = a[i, j] * b[k, l]   (0-based)
kron_sized(a, b, p, q) ==
    [r \in 1..(p * q) |-> [c \in 1..(p * q) |->
        RMul(a[((r - 1) \div q) + 1][((c - 1) \div q) + 1],
             b[((r - 1) % q) + 1][((c - 1) % q) + 1])]]

kron(a, b) == kron_sized(a, b, Len(a), Len(b))

\* np.linspace(start, stop, num, endpoint=False): the samples stop one step short of stop
linspace_endpoint_excluded(start, stop, num) ==
    [i \in 1..num |-> RAdd(start, RMul(Rat(i - 1, num), RSub(stop, start)))]

\* np.linspace(start, stop, num) for num >= 0
linspace(start, stop, num) ==
    [i \in 1..num |->
        IF num = 1 THEN start
        ELSE RAdd(start, RMul(Rat(i - 1, num - 1), RSub(stop, start)))]

\* an integer matrix (sequence of rows) as a matrix of rationals
RatMatrix(m) == [i \in 1..Len(m) |-> [j \in 1..Len(m[i]) |-> R(m[i][j])]]
RatVector(v) == [i \in 1..Len(v) |-> R(v[i])]

-----------------------------------------------------------------------------
(* mesher.py: side_selector *)

Returns(v) == [exc |-> NoExc, value |-> v]
Raises(e) == [exc |-> e, value |-> Unset]

\* side_selector.boundary_index
boundary_index(side) ==
    IF side = "left" THEN Returns(0)
    ELSE IF side = "right" THEN Returns(-1)
    ELSE Raises("ValueError")

\* side_selector.first_interior_index
first_interior_index(side) ==
    IF side = "left" THEN Returns(1)
    ELSE IF side = "right" THEN Returns(-2)
    ELSE Raises("ValueError")

-----------------------------------------------------------------------------
(* mesher.py: mesh_type_validator *)

\* mesh_type_validator.validate: the exception raised, or NoExc
validate(a_mesh_type) ==
    IF a_mesh_type \notin {FiniteVolume, FiniteDifference} THEN "ValueError" ELSE NoExc

-----------------------------------------------------------------------------
(* mesher.py: grid *)

\* grid.__init__ with grid.__discritize: [exc, value], value the grid object.
\* a_cordinates is a pair of integers <<min, max>>.
grid_init(a_n_cells, a_cordinates, a_mesh_type) ==
    LET span == a_cordinates[2] - a_cordinates[1]
        lo == R(a_cordinates[1])
        hi == R(a_cordinates[2])
    IN  IF a_mesh_type = FiniteVolume THEN
            IF a_n_cells = 0 THEN Raises("ZeroDivisionError")
            ELSE LET w == Rat(span, a_n_cells) IN
                 \* np.linspace raises ValueError for a negative number of samples
                 IF a_n_cells < 0 THEN Raises("ValueError")
                 ELSE Returns([n_cells |-> a_n_cells,
                               cordinates |-> a_cordinates,
                               cell_width |-> w,
                               cell_cordinates |->
                                   linspace(RAdd(lo, RMul(w, Half)),
                                            RSub(hi, RMul(w, Half)),
                                            a_n_cells)])
        ELSE IF a_mesh_type = FiniteDifference THEN
            IF a_n_cells - 1 = 0 THEN Raises("ZeroDivisionError")
            ELSE LET w == Rat(span, a_n_cells - 1) IN
                 IF a_n_cells < 0 THEN Raises("ValueError")
                 ELSE Returns([n_cells |-> a_n_cells,
                               cordinates |-> a_cordinates,
                               cell_width |-> w,
                               cell_cordinates |-> linspace(lo, hi, a_n_cells)])
        ELSE Raises("ValueError")

-----------------------------------------------------------------------------
(* mesher.py: differentiation_matrix *)

\* set_diagonal with the offsets of the lower and the upper diagonal exchanged
\* (spdiags offsets [1, 0, -1])
set_diagonal_offsets_swapped(n, lower, middle, upper) ==
    [i \in 1..n |-> [j \in 1..n |->
        IF j = i - 1 THEN upper
        ELSE IF j = i THEN middle
        ELSE IF j = i + 1 THEN lower
        ELSE R(0)]]

\* differentiation_matrix.set_diagonal: the n x n array with lower, middle and
\* upper on diagonals -1, 0 and +1 (scipy.sparse.spdiags(...).toarray())
set_diagonal(n, lower, middle, upper) ==
    [i \in 1..n |-> [j \in 1..n |->
        IF j = i - 1 THEN lower
        ELSE IF j = i THEN middle
        ELSE IF j = i + 1 THEN upper
        ELSE R(0)]]

\* differentiation_matrix.__init__: the object
differentiation_matrix_init(a_n_cells) ==
    [n_cells |-> a_n_cells,
     differentiation_matrix |-> set_diagonal(a_n_cells, R(1), R(-2), R(1))]

\* differentiation_matrix.get_matrix
get_matrix(obj) == obj.differentiation_matrix

\* m[i, j] = v with Python indices i, j; IndexError when out of range
SetItem(obj, i, j, v) ==
    LET m == obj.differentiation_matrix
        n == Len(m)
    IN  IF ~(InRange(i, n) /\ InRange(j, n)) THEN [exc |-> "IndexError", value |-> obj]
        ELSE [exc |-> NoExc,
              value |-> [obj EXCEPT !.differentiation_matrix =
                            [m EXCEPT ![PyIndex(i, n)][PyIndex(j, n)] = v]]]

\* m[i, :] = v with Python index i
SetRow(obj, i, v) ==
    LET m == obj.differentiation_matrix
        n == Len(m)
    IN  IF ~InRange(i, n) THEN [exc |-> "IndexError", value |-> obj]
        ELSE [exc |-> NoExc,
              value |-> [obj EXCEPT !.differentiation_matrix =
                            [m EXCEPT ![PyIndex(i, n)] = [j \in 1..n |-> v]]]]

\* differentiation_matrix.set_dirichlet_boundary with the side ignored once it is
\* validated: the first row is written whatever the side
differentiation_matrix_set_dirichlet_boundary_first_row(obj, side, a_mesh_type) ==
    LET array_index == boundary_index(side)
    IN  IF array_index.exc # NoExc THEN [exc |-> array_index.exc, value |-> obj]
        ELSE IF a_mesh_type = FiniteVolume THEN SetItem(obj, 0, 0, R(-3))
        ELSE IF a_mesh_type = FiniteDifference THEN SetRow(obj, 0, R(0))
        ELSE [exc |-> "ValueError", value |-> obj]

\* differentiation_matrix.set_dirichlet_boundary: [exc, value], value the object after the call
differentiation_matrix_set_dirichlet_boundary(obj, side, a_mesh_type) ==
    LET array_index == boundary_index(side)
    IN  IF array_index.exc # NoExc THEN [exc |-> array_index.exc, value |-> obj]
        ELSE IF a_mesh_type = FiniteVolume THEN
            SetItem(obj, array_index.value, array_index.value, R(-3))
        ELSE IF a_mesh_type = FiniteDifference THEN
            SetRow(obj, array_index.value, R(0))
        ELSE [exc |-> "ValueError", value |-> obj]

\* differentiation_matrix.set_neumann_boundary: [exc, value], value the object after the call
differentiation_matrix_set_neumann_boundary(obj, side, a_mesh_type) ==
    LET b_index == boundary_index(side)
        interior == first_interior_index(side)
    IN  IF b_index.exc # NoExc THEN [exc |-> b_index.exc, value |-> obj]
        ELSE IF interior.exc # NoExc THEN [exc |-> interior.exc, value |-> obj]
        ELSE IF a_mesh_type = FiniteVolume THEN
            SetItem(obj, b_index.value, b_index.value, R(-1))
        ELSE IF a_mesh_type = FiniteDifference THEN
            SetItem(obj, b_index.value, interior.value, R(2))
        ELSE [exc |-> "ValueError", value |-> obj]

-----------------------------------------------------------------------------
(* mesher.py: boundary_condition *)

\* the methods the class boundary_condition defines
boundary_condition_methods == {"__init__", "set_dirichlet_boundary"}

\* boundary_condition.__init__: [exc, value], value the object
boundary_condition_init(a_n_cells, a_mesh_type) ==
    IF validate(a_mesh_type) # NoExc THEN Raises(validate(a_mesh_type))
    ELSE Returns([boundary_condition_array |-> zeros(a_n_cells),
                  mesh_type |-> a_mesh_type])

\* boundary_condition.set_dirichlet_boundary with the index dropped from the
\* assignment: boundary_condition_array[:] = ... writes every entry
boundary_condition_set_dirichlet_boundary_every_entry(obj, side, phi) ==
    LET b_index == boundary_index(side)
        arr == obj.boundary_condition_array
    IN  IF b_index.exc # NoExc THEN [exc |-> b_index.exc, value |-> obj]
        ELSE IF obj.mesh_type = FiniteVolume THEN
            [exc |-> NoExc,
             value |-> [obj EXCEPT !.boundary_condition_array =
                           [i \in DOMAIN arr |-> RMul(R(2), R(phi))]]]
        ELSE [exc |-> NoExc,
              value |-> [obj EXCEPT !.boundary_condition_array =
                            [i \in DOMAIN arr |-> R(0)]]]

\* boundary_condition.set_dirichlet_boundary: [exc, value], value the object after the call
boundary_condition_set_dirichlet_boundary(obj, side, phi) ==
    LET b_index == boundary_index(side)
        arr == obj.boundary_condition_array
        n == Len(arr)
    IN  IF b_index.exc # NoExc THEN [exc |-> b_index.exc, value |-> obj]
        ELSE IF ~InRange(b_index.value, n) THEN [exc |-> "IndexError", value |-> obj]
        ELSE IF obj.mesh_type = FiniteVolume THEN
            [exc |-> NoExc,
             value |-> [obj EXCEPT !.boundary_condition_array =
                           [arr EXCEPT ![PyIndex(b_index.value, n)] = RMul(R(2), R(phi))]]]
        ELSE IF obj.mesh_type = FiniteDifference THEN
            [exc |-> NoExc,
             value |-> [obj EXCEPT !.boundary_condition_array =
                           [arr EXCEPT ![PyIndex(b_index.value, n)] = R(0)]]]
        ELSE [exc |-> NoExc, value |-> obj]

\* calling obj.set_neumann_boundary(side=, flux=, cell_width=) on a boundary_condition
\* object: the attribute lookup raises AttributeError, the class defines no such method
boundary_condition_set_neumann_boundary(obj, side, flux, cell_width) ==
    IF "set_neumann_boundary" \notin boundary_condition_methods
    THEN [exc |-> "AttributeError", value |-> obj]
    ELSE [exc |-> NoExc, value |-> obj]

-----------------------------------------------------------------------------
(* mesher.py: upwind, central and maccormack differentiation matrices *)

\* np.transpose(m) and -m for a square matrix
transpose(m) == [i \in 1..Len(m) |-> [j \in 1..Len(m) |-> m[j][i]]]
MatNeg(m) == [i \in DOMAIN m |-> [j \in DOMAIN m[i] |-> RNeg(m[i][j])]]

\* upwind_differentiation_matrix.__init__: the object
upwind_differentiation_matrix_init(a_n_cells) ==
    [n_cells |-> a_n_cells,
     differentiation_matrix |-> set_diagonal(a_n_cells, R(1), R(-1), R(0))]

\* central_differentiation_matrix.__init__: the object
central_differentiation_matrix_init(a_n_cells) ==
    [n_cells |-> a_n_cells,
     differentiation_matrix |-> set_diagonal(a_n_cells, Half, R(0), RNeg(Half))]

\* maccormack_differentiation_matrix.__init__: the object; the predictor is a new
\* array computed once from the matrix
maccormack_differentiation_matrix_init(a_n_cells) ==
    [n_cells |-> a_n_cells,
     differentiation_matrix |-> set_diagonal(a_n_cells, R(-1), R(1), R(0)),
     predictor_differentiation_matrix |->
         MatNeg(transpose(set_diagonal(a_n_cells, R(-1), R(1), R(0))))]

-----------------------------------------------------------------------------
(* mesher.py: create_1Dmesh, heat_diffusion_mesh, linear_convection_mesh *)
(* A mesh object is a record. Its numpy arrays live in the field "arrays", *)
(* one per array object; an attribute that is bound to an array holds the  *)
(* name of that array, so two attributes bound to the same array object    *)
(* (laplacian_matrix and the matrix of x_differentiation_matrix) see each  *)
(* other's writes.                                                         *)

\* the array objects of a mesh
MatrixRef == "differentiation_matrix"
PredictorRef == "predictor_differentiation_matrix"
BoundaryRef == "boundary_condition_array"
TemperatureRef == "temperature"
PhiRef == "phi"

\* the object self.x_differentiation_matrix and the object self.boundary_condition_object
x_differentiation_matrix_of(m) ==
    [n_cells |-> m.n_cells, differentiation_matrix |-> m.arrays[MatrixRef]]
boundary_condition_object_of(m) ==
    [boundary_condition_array |-> m.arrays[BoundaryRef], mesh_type |-> m.mesh_type]

\* array[i] = v and array[i, j] = v with Python indices in range
SetEntry(arr, i, v) == [arr EXCEPT ![PyIndex(i, Len(arr))] = v]
SetCell(mat, i, j, v) == [mat EXCEPT ![PyIndex(i, Len(mat))][PyIndex(j, Len(mat))] = v]

\* create_1Dmesh.__init__: [exc, value], value the object
create_1Dmesh_init(x, a_n_cells, a_mesh_type) ==
    LET x_grid == grid_init(a_n_cells, x, a_mesh_type) IN
    IF x_grid.exc # NoExc THEN Raises(x_grid.exc)
    ELSE LET b == boundary_condition_init(a_n_cells, a_mesh_type) IN
         IF b.exc # NoExc THEN Raises(b.exc)
         ELSE Returns([n_cells |-> a_n_cells,
                       mesh_type |-> a_mesh_type,
                       delta_x |-> x_grid.value.cell_width,
                       xcell_center |-> x_grid.value.cell_cordinates,
                       arrays |->
                           [differentiation_matrix |->
                                get_matrix(differentiation_matrix_init(a_n_cells)),
                            boundary_condition_array |-> b.value.boundary_condition_array],
                       laplacian_matrix |-> MatrixRef,
                       boundary_condition_array |-> BoundaryRef])

\* heat_diffusion_mesh.__init__: [exc, value], value the object
heat_diffusion_mesh_init(x, a_n_cells, a_mesh_type) ==
    LET base == create_1Dmesh_init(x, a_n_cells, a_mesh_type) IN
    IF base.exc # NoExc THEN base
    ELSE Returns([n_cells |-> base.value.n_cells,
                  mesh_type |-> base.value.mesh_type,
                  delta_x |-> base.value.delta_x,
                  xcell_center |-> base.value.xcell_center,
                  arrays |->
                      [differentiation_matrix |-> base.value.arrays[MatrixRef],
                       boundary_condition_array |-> base.value.arrays[BoundaryRef],
                       temperature |-> zeros(a_n_cells)],
                  laplacian_matrix |-> base.value.laplacian_matrix,
                  boundary_condition_array |-> base.value.boundary_condition_array,
                  thermal_diffusivity |-> Unset])

\* heat_diffusion_mesh.set_cell_temperature
heat_diffusion_mesh_set_cell_temperature(m, temperature) ==
    [exc |-> NoExc,
     value |-> [m EXCEPT !.arrays[TemperatureRef] =
                   [i \in 1..m.n_cells |-> RMul(R(temperature), R(1))]]]

\* heat_diffusion_mesh.set_thermal_diffusivity
heat_diffusion_mesh_set_thermal_diffusivity(m, thermal_diffusivity) ==
    [exc |-> NoExc, value |-> [m EXCEPT !.thermal_diffusivity = thermal_diffusivity]]

\* heat_diffusion_mesh.set_dirichlet_boundary: [exc, value], value the object after the call
heat_diffusion_mesh_set_dirichlet_boundary(m, side, temperature) ==
    LET d == differentiation_matrix_set_dirichlet_boundary(
                 x_differentiation_matrix_of(m), side, m.mesh_type)
        m1 == [m EXCEPT !.arrays[MatrixRef] = get_matrix(d.value)]
    IN  IF d.exc # NoExc THEN [exc |-> d.exc, value |-> m1]
        ELSE LET b == boundary_condition_set_dirichlet_boundary(
                          boundary_condition_object_of(m1), side, temperature)
                 m2 == [m1 EXCEPT !.arrays[BoundaryRef] = b.value.boundary_condition_array]
                 array_index == boundary_index(side)
             IN  IF b.exc # NoExc THEN [exc |-> b.exc, value |-> m2]
                 ELSE IF array_index.exc # NoExc THEN [exc |-> array_index.exc, value |-> m2]
                 ELSE IF m.mesh_type = FiniteVolume THEN [exc |-> NoExc, value |-> m2]
                 ELSE IF m.mesh_type = FiniteDifference THEN
                     [exc |-> NoExc,
                      value |-> [m2 EXCEPT !.arrays[TemperatureRef] =
                                    SetEntry(@, array_index.value, R(temperature))]]
                 ELSE [exc |-> "ValueError", value |-> m2]

\* heat_diffusion_mesh.set_neumann_boundary: [exc, value], value the object after the call
heat_diffusion_mesh_set_neumann_boundary(m, side, flux) ==
    LET d == differentiation_matrix_set_neumann_boundary(
                 x_differentiation_matrix_of(m), side, m.mesh_type)
        m1 == [m EXCEPT !.arrays[MatrixRef] = get_matrix(d.value)]
        array_index == IF side = "left" THEN Returns(0)
                       ELSE IF side = "right" THEN Returns(-1)
                       ELSE Raises("ValueError")
    IN  IF d.exc # NoExc THEN [exc |-> d.exc, value |-> m1]
        ELSE IF array_index.exc # NoExc THEN [exc |-> array_index.exc, value |-> m1]
        ELSE IF m.mesh_type = FiniteVolume THEN
            IF RIsZero(m.delta_x) THEN [exc |-> "ZeroDivisionError", value |-> m1]
            ELSE [exc |-> NoExc,
                  value |-> [m1 EXCEPT !.arrays[m.boundary_condition_array] =
                                SetEntry(@, array_index.value, RDiv(R(flux), m.delta_x))]]
        ELSE IF m.mesh_type = FiniteDifference THEN
            [exc |-> NoExc,
             value |-> [m1 EXCEPT !.arrays[m.boundary_condition_array] =
                           SetEntry(@, array_index.value,
                                    RMul(RMul(R(2), R(flux)), m.delta_x))]]
        ELSE [exc |-> "ValueError", value |-> m1]

\* the discretization types linear_convection_mesh.__init__ knows
Upwind == "upwind"
Central == "central"
Maccormack == "maccormack"

\* linear_convection_mesh.__init__: [exc, value], value the object
linear_convection_mesh_init(x, a_n_cells, a_mesh_type, convection_coefficient, discretization_type) ==
    LET base == create_1Dmesh_init(x, a_n_cells, a_mesh_type) IN
    IF base.exc # NoExc THEN base
    ELSE IF discretization_type \notin {Upwind, Central, Maccormack} THEN Raises("ValueError")
    ELSE IF convection_coefficient <= 0 THEN Raises("ValueError")
    ELSE LET common ==
                 [n_cells |-> base.value.n_cells,
                  mesh_type |-> base.value.mesh_type,
                  delta_x |-> base.value.delta_x,
                  xcell_center |-> base.value.xcell_center,
                  discretization_type |-> discretization_type,
                  convection_coefficent |-> convection_coefficient,
                  laplacian_matrix |-> MatrixRef,
                  boundary_condition_array |-> base.value.boundary_condition_array]
             plain(obj) ==
                 [differentiation_matrix |-> get_matrix(obj),
                  boundary_condition_array |-> base.value.arrays[BoundaryRef],
                  phi |-> zeros(a_n_cells)]
         IN  IF discretization_type = Upwind THEN
                 Returns(common @@
                         [arrays |-> plain(upwind_differentiation_matrix_init(a_n_cells))])
             ELSE IF discretization_type = Central THEN
                 Returns(common @@
                         [arrays |-> plain(central_differentiation_matrix_init(a_n_cells))])
             ELSE LET obj == maccormack_differentiation_matrix_init(a_n_cells) IN
                  Returns(common @@
                          [arrays |-> plain(obj) @@
                               [predictor_differentiation_matrix |->
                                    obj.predictor_differentiation_matrix],
                           predictor_differentiation_matrix |-> PredictorRef])

\* linear_convection_mesh.set_phi; phi is [kind, number, list]: kind "number" (an int
\* or float, in field number), "list" (in field list) or any other type
linear_convection_mesh_set_phi(m, phi) ==
    IF phi.kind = "number" THEN
        [exc |-> NoExc,
         value |-> [m EXCEPT !.arrays[PhiRef] = [i \in 1..m.n_cells |-> R(phi.number)]]]
    ELSE IF phi.kind = "list" THEN
        IF Len(phi.list) # Len(m.xcell_center) THEN [exc |-> "ValueError", value |-> m]
        ELSE [exc |-> NoExc, value |-> [m EXCEPT !.arrays[PhiRef] = RatVector(phi.list)]]
    ELSE [exc |-> "TypeError", value |-> m]

\* linear_convection_mesh.set_dirichlet_boundary: [exc, value], value the object after the call
linear_convection_mesh_set_dirichlet_boundary(m, side, phi) ==
    LET d == differentiation_matrix_set_dirichlet_boundary(
                 x_differentiation_matrix_of(m), side, m.mesh_type)
        m1 == [m EXCEPT !.arrays[MatrixRef] = get_matrix(d.value)]
        array_index == 0
    IN  IF d.exc # NoExc THEN [exc |-> d.exc, value |-> m1]
        ELSE IF side # "left" THEN [exc |-> "ValueError", value |-> m1]
        ELSE IF m.mesh_type = FiniteVolume THEN
            [exc |-> NoExc,
             value |-> [m1 EXCEPT
                           !.arrays[m.boundary_condition_array] =
                               SetEntry(@, array_index, R(phi)),
                           !.arrays[m.laplacian_matrix] =
                               SetCell(@, array_index, array_index, R(-1))]]
        ELSE IF m.mesh_type = FiniteDifference THEN
            LET m2 == [m1 EXCEPT !.arrays[m.boundary_condition_array] =
                                     SetEntry(@, array_index, R(0))]
                m3 == IF m.discretization_type = Maccormack
                      THEN [m2 EXCEPT !.arrays[m.predictor_differentiation_matrix] =
                                          SetEntry(@, array_index,
                                                   [j \in 1..Len(@) |-> R(0)])]
                      ELSE m2
            IN  [exc |-> NoExc,
                 value |-> [m3 EXCEPT !.arrays[PhiRef] = SetEntry(@, array_index, R(phi))]]
        ELSE [exc |-> "ValueError", value |-> m1]

\* linear_convection_mesh.set_right_boundary: laplacian_matrix[-1, -3:] = [1.5, -1, 0.5];
\* with fewer than 3 columns the slice is shorter than the list and numpy raises
\* ValueError (could not broadcast)
linear_convection_mesh_set_right_boundary(m) ==
    LET n == Len(m.arrays[m.laplacian_matrix]) IN
    IF n < 3 THEN [exc |-> "ValueError", value |-> m]
    ELSE [exc |-> NoExc,
          value |-> [m EXCEPT !.arrays[m.laplacian_matrix] =
                        [@ EXCEPT ![n] = [j \in 1..n |->
                            IF j = n - 2 THEN Rat(3, 2)
                            ELSE IF j = n - 1 THEN R(-1)
                            ELSE IF j = n THEN Half
                            ELSE @[j]]]]]

-----------------------------------------------------------------------------
(* cartesian_mesh.py: CartesianMesh *)

\* CartesianMesh.implemented_dimensions and CartesianMesh.implemented_mesh_types
implemented_dimensions == <<"x", "y">>
implemented_mesh_types == FiniteVolume

\* the dict keys f"{dim}_grid", f"{dim}_differentiation_matrix",
\* f"{dim}_boundary_condition_array" for dim = implemented_dimensions[index]
grid_key(index) == <<"x_grid", "y_grid">>[index + 1]
differentiation_matrix_key(index) ==
    <<"x_differentiation_matrix", "y_differentiation_matrix">>[index + 1]
boundary_condition_key(index) ==
    <<"x_boundary_condition_array", "y_boundary_condition_array">>[index + 1]

\* range(0, d)
range(d) == 0..(d - 1)

\* a dict built by a loop over range(0, d) that stores item(index) under key(index)
EmptyDict == [k \in {} |-> Unset]

\* CartesianMesh.validate_inputs: the exception raised, or NoExc
validate_inputs(a_n_cells, a_cordinates, a_dimensions, a_mesh_type) ==
    IF a_dimensions > Len(implemented_dimensions) THEN "ValueError"
    ELSE IF Len(a_cordinates) # a_dimensions THEN "ValueError"
    ELSE IF Len(a_n_cells) # a_dimensions THEN "ValueError"
    ELSE IF ~StrIn(a_mesh_type, implemented_mesh_types) THEN "ValueError"
    ELSE NoExc

\* CartesianMesh.initalize_grid: [exc, value], value the dict of grids
initalize_grid(a_dimensions, a_n_cells, a_cordinates, a_mesh_type) ==
    LET made(index) == grid_init(a_n_cells[index + 1], a_cordinates[index + 1], a_mesh_type)
        failing == {index \in range(a_dimensions) : made(index).exc # NoExc}
        first == CHOOSE index \in failing : \A other \in failing : index <= other
    IN  IF failing # {} THEN Raises(made(first).exc)
        ELSE Returns([k \in {grid_key(index) : index \in range(a_dimensions)} |->
                        made(CHOOSE index \in range(a_dimensions) : grid_key(index) = k).value])

\* CartesianMesh.initalize_differentiation_matrix: the dict of differentiation matrices
initalize_differentiation_matrix(a_dimensions, a_n_cells) ==
    [k \in {differentiation_matrix_key(index) : index \in range(a_dimensions)} |->
        differentiation_matrix_init(
            a_n_cells[(CHOOSE index \in range(a_dimensions) :
                          differentiation_matrix_key(index) = k) + 1])]

\* CartesianMesh.initalize_boundary_condition: [exc, value], value the dict of boundary conditions
initalize_boundary_condition(a_dimensions, a_n_cells, a_mesh_type) ==
    LET made(index) == boundary_condition_init(a_n_cells[index + 1], a_mesh_type)
        failing == {index \in range(a_dimensions) : made(index).exc # NoExc}
        first == CHOOSE index \in failing : \A other \in failing : index <= other
    IN  IF failing # {} THEN Raises(made(first).exc)
        ELSE Returns([k \in {boundary_condition_key(index) : index \in range(a_dimensions)} |->
                        made(CHOOSE index \in range(a_dimensions) :
                                boundary_condition_key(index) = k).value])

\* 1 / cell_width ** 2, cell_width # 0
InverseSquare(cell_width) == RDiv(R(1), RMul(cell_width, cell_width))

\* CartesianMesh.set_laplacian on a mesh with the given attributes:
\* [exc, value], value the laplacian attribute after the call
set_laplacian(a_dimensions, a_grid, a_matrices, a_laplacian) ==
    IF a_dimensions = 1 THEN
        IF RIsZero(a_grid["x_grid"].cell_width)
        THEN [exc |-> "ZeroDivisionError", value |-> a_laplacian]
        ELSE Returns(MatScale(get_matrix(a_matrices["x_differentiation_matrix"]),
                              InverseSquare(a_grid["x_grid"].cell_width)))
    ELSE IF a_dimensions = 2 THEN
        IF RIsZero(a_grid["x_grid"].cell_width) \/ RIsZero(a_grid["y_grid"].cell_width)
        THEN [exc |-> "ZeroDivisionError", value |-> a_laplacian]
        ELSE LET d2x == MatScale(get_matrix(a_matrices["x_differentiation_matrix"]),
                                 InverseSquare(a_grid["x_grid"].cell_width))
                 d2y == MatScale(get_matrix(a_matrices["y_differentiation_matrix"]),
                                 InverseSquare(a_grid["y_grid"].cell_width))
                 Ix == identity(a_grid["x_grid"].n_cells)
                 Iy == identity(a_grid["y_grid"].n_cells)
             IN  Returns(MatAdd(kron(Iy, d2x), kron(d2y, Ix)))
    ELSE Returns(a_laplacian)

\* CartesianMesh.__init__ on the given arguments:
\* [exc, grid, differentiation_matrix, boundary_condition, laplacian]
CartesianMesh_init_result(a_dimensions, a_n_cells, a_cordinates, a_mesh_type) ==
    LET failed(e) == [exc |-> e, grid |-> EmptyDict, differentiation_matrix |-> EmptyDict,
                      boundary_condition |-> EmptyDict, laplacian |-> Unset]
        v == validate_inputs(a_n_cells, a_cordinates, a_dimensions, a_mesh_type)
    IN  IF v # NoExc THEN failed(v)
        ELSE LET g == initalize_grid(a_dimensions, a_n_cells, a_cordinates, a_mesh_type) IN
             IF g.exc # NoExc THEN failed(g.exc)
             ELSE LET d == initalize_differentiation_matrix(a_dimensions, a_n_cells)
                      b == initalize_boundary_condition(a_dimensions, a_n_cells, a_mesh_type)
                  IN  IF b.exc # NoExc THEN failed(b.exc)
                      ELSE LET l == set_laplacian(a_dimensions, g.value, d, Unset) IN
                           IF l.exc # NoExc THEN failed(l.exc)
                           ELSE [exc |-> NoExc, grid |-> g.value,
                                 differentiation_matrix |-> d,
                                 boundary_condition |-> b.value,
                                 laplacian |-> l.value]

\* the statements of one branch of CartesianMesh.set_dirichlet_boundary, for the axis
\* implemented_dimensions[index]: [exc, differentiation_matrix, boundary_condition]
dirichlet_branch(index, side, phi, a_mesh_type, a_matrices, a_conditions) ==
    LET mk == differentiation_matrix_key(index)
        bk == boundary_condition_key(index)
    IN  IF mk \notin DOMAIN a_matrices
        THEN [exc |-> "KeyError", differentiation_matrix |-> a_matrices,
              boundary_condition |-> a_conditions]
        ELSE LET m == differentiation_matrix_set_dirichlet_boundary(
                          a_matrices[mk], side, a_mesh_type)
                 matrices1 == [a_matrices EXCEPT ![mk] = m.value]
             IN  IF m.exc # NoExc
                 THEN [exc |-> m.exc, differentiation_matrix |-> matrices1,
                       boundary_condition |-> a_conditions]
                 ELSE IF bk \notin DOMAIN a_conditions
                 THEN [exc |-> "KeyError", differentiation_matrix |-> matrices1,
                       boundary_condition |-> a_conditions]
                 ELSE LET b == boundary_condition_set_dirichlet_boundary(
                                   a_conditions[bk], side, phi)
                      IN  [exc |-> b.exc, differentiation_matrix |-> matrices1,
                           boundary_condition |-> [a_conditions EXCEPT ![bk] = b.value]]

\* the statements of one branch of CartesianMesh.set_neumann_boundary, for the axis
\* implemented_dimensions[index]: [exc, differentiation_matrix, boundary_condition]
neumann_branch(index, side, flux, a_mesh_type, a_grid, a_matrices, a_conditions) ==
    LET mk == differentiation_matrix_key(index)
        bk == boundary_condition_key(index)
        gk == grid_key(index)
    IN  IF mk \notin DOMAIN a_matrices
        THEN [exc |-> "KeyError", differentiation_matrix |-> a_matrices,
              boundary_condition |-> a_conditions]
        ELSE LET m == differentiation_matrix_set_neumann_boundary(
                          a_matrices[mk], side, a_mesh_type)
                 matrices1 == [a_matrices EXCEPT ![mk] = m.value]
             IN  IF m.exc # NoExc
                 THEN [exc |-> m.exc, differentiation_matrix |-> matrices1,
                       boundary_condition |-> a_conditions]
                 ELSE IF bk \notin DOMAIN a_conditions
                 THEN [exc |-> "KeyError", differentiation_matrix |-> matrices1,
                       boundary_condition |-> a_conditions]
                 ELSE LET b == boundary_condition_set_neumann_boundary(
                                   a_conditions[bk], side, flux, a_grid[gk].cell_width)
                      IN  [exc |-> b.exc, differentiation_matrix |-> matrices1,
                           boundary_condition |-> [a_conditions EXCEPT ![bk] = b.value]]

\* the statements of CartesianMesh.set_dirichlet_boundary before its call of
\* set_laplacian, on the current mesh: [exc, differentiation_matrix, boundary_condition]
set_dirichlet_boundary_branches(side, phi) ==
    LET skip == [exc |-> NoExc, differentiation_matrix |-> differentiation_matrix,
                 boundary_condition |-> boundary_condition]
        s1 == IF side = "left" \/ side = "right"
              THEN dirichlet_branch(0, side, phi, mesh_type,
                                    differentiation_matrix, boundary_condition)
              ELSE skip
    IN  IF s1.exc # NoExc THEN s1
        ELSE IF side = "top" \/ side = "bottom"
        THEN dirichlet_branch(1, side, phi, mesh_type,
                              s1.differentiation_matrix, s1.boundary_condition)
        ELSE s1

\* the statements of CartesianMesh.set_neumann_boundary before its call of
\* set_laplacian, on the current mesh: [exc, differentiation_matrix, boundary_condition]
set_neumann_boundary_branches(side, flux) ==
    IF side = "left" \/ side = "right"
    THEN neumann_branch(0, side, flux, mesh_type, grid,
                        differentiation_matrix, boundary_condition)
    ELSE IF side = "top" \/ side = "bottom"
    THEN neumann_branch(1, side, flux, mesh_type, grid,
                        differentiation_matrix, boundary_condition)
    ELSE [exc |-> NoExc, differentiation_matrix |-> differentiation_matrix,
          boundary_condition |-> boundary_condition]

-----------------------------------------------------------------------------
(* Inputs *)

\* side labels: the four the interface names and one that stands for any other label
Sides == {"left", "right", "top", "bottom", "front"}

\* boundary values and fluxes
Values == {-10, 30}

DimensionInputs == -1..3

MeshTypeInputs == {FiniteVolume, FiniteDifference, Finite, EmptyString, Fvm}

\* n_cells lists of length 0, 1, 2 and 3
NCellsInputs ==
    {<<>>} \cup {<<n>> : n \in -1..MaxCells}
           \cup {<<1, 1>>, <<2, 1>>, <<2, 2>>, <<2, 3>>} \cup {<<4, 4, 4>>}

\* cordinates lists of length 0, 1, 2 and 3
CordinatesInputs ==
    {<<>>, << <<0, 1>> >>, << <<1, 1>> >>, << <<0, 1>>, <<0, 2>> >>,
     << <<0, 3>>, <<0, 2>> >>, << <<0, 1>>, <<0, 1>>, <<0, 1>> >>}

\* bounds of a grid constructed on its own
BoundsInputs == {<<lo, hi>> : lo \in 0..2, hi \in 0..2}

\* arguments of the one-dimensional meshes: the domain x, sides, a temperature or
\* phi, a flux, a thermal diffusivity, convection coefficients, discretization types
\* (one unknown) and the phi arguments of set_phi (a number, a list, another type)
XInputs == {<<0, 1>>, <<0, 2>>}
Sides1D == {"left", "right", "top"}
Temperatures == {30}
Fluxes == {-10}
Diffusivities == {1}
ConvectionInputs == {0, 1}
DiscretizationInputs == {Upwind, Central, Maccormack, "lax"}
PhiInputs == {[kind |-> "number", number |-> 30, list |-> <<>>],
              [kind |-> "list", number |-> 0, list |-> <<1, 2, 3>>],
              [kind |-> "str", number |-> 0, list |-> <<>>]}

HeatArgs ==
    [cls : {"heat_diffusion_mesh"}, x : XInputs, n_cells : 1..MaxCells,
     mesh_type : {FiniteVolume, FiniteDifference, Fvm}]

ConvectionArgs ==
    [cls : {"linear_convection_mesh"}, x : XInputs, n_cells : 1..MaxCells,
     mesh_type : {FiniteVolume, FiniteDifference, Fvm},
     convection_coefficient : ConvectionInputs,
     discretization_type : DiscretizationInputs]

NoCall == [op |-> "none", side |-> "", value |-> 0]
NoGrid == [n_cells |-> 0, cordinates |-> <<0, 0>>, mesh_type |-> EmptyString,
           exc |-> "unused", value |-> Unset]
NoMesh1d == [args |-> Unset, state |-> "unused", object |-> Unset]

-----------------------------------------------------------------------------
(* Actions: one per call on the mesh *)

\* CartesianMesh(dimensions, n_cells, cordinates, mesh_type)
CartesianMesh_init ==
    /\ pc = "new"
    /\ LET r == CartesianMesh_init_result(dimensions, n_cells, cordinates, mesh_type) IN
        /\ pc' = IF r.exc = NoExc THEN "mesh" ELSE "failed"
        /\ grid' = r.grid
        /\ differentiation_matrix' = r.differentiation_matrix
        /\ boundary_condition' = r.boundary_condition
        /\ laplacian' = r.laplacian
        /\ outcome' = r.exc
    /\ call' = [op |-> "__init__", side |-> "", value |-> 0]
    /\ UNCHANGED <<dimensions, n_cells, cordinates, mesh_type, axis_grid, mesh1d>>

\* mesh.set_dirichlet_boundary(side, phi): the branches, then set_laplacian unless
\* a branch raised
CartesianMesh_set_dirichlet_boundary(side, phi) ==
    /\ pc = "mesh"
    /\ LET b == set_dirichlet_boundary_branches(side, phi) IN
        /\ differentiation_matrix' = b.differentiation_matrix
        /\ boundary_condition' = b.boundary_condition
        /\ IF b.exc # NoExc
           THEN laplacian' = laplacian /\ outcome' = b.exc
           ELSE LET l == set_laplacian(dimensions, grid, differentiation_matrix', laplacian)
                IN  laplacian' = l.value /\ outcome' = l.exc
    /\ call' = [op |-> "set_dirichlet_boundary", side |-> side, value |-> phi]
    /\ UNCHANGED <<pc, dimensions, n_cells, cordinates, mesh_type, grid, axis_grid, mesh1d>>

\* mesh.set_neumann_boundary(side, flux): the branches, then set_laplacian unless
\* a branch raised
CartesianMesh_set_neumann_boundary(side, flux) ==
    /\ pc = "mesh"
    /\ LET b == set_neumann_boundary_branches(side, flux) IN
        /\ differentiation_matrix' = b.differentiation_matrix
        /\ boundary_condition' = b.boundary_condition
        /\ IF b.exc # NoExc
           THEN laplacian' = laplacian /\ outcome' = b.exc
           ELSE LET l == set_laplacian(dimensions, grid, differentiation_matrix', laplacian)
                IN  laplacian' = l.value /\ outcome' = l.exc
    /\ call' = [op |-> "set_neumann_boundary", side |-> side, value |-> flux]
    /\ UNCHANGED <<pc, dimensions, n_cells, cordinates, mesh_type, grid, axis_grid, mesh1d>>

\* grid(n_cells, cordinates, mesh_type), constructed on its own
grid_construct ==
    /\ pc = "grid"
    /\ axis_grid.exc = "pending"
    /\ LET r == grid_init(axis_grid.n_cells, axis_grid.cordinates, axis_grid.mesh_type) IN
        axis_grid' = [axis_grid EXCEPT !.exc = r.exc, !.value = r.value]
    /\ UNCHANGED <<pc, mesh_vars, call, outcome, calls, mesh1d>>

\* the part of a step on the one-dimensional mesh that every call shares: the
\* object after the call, the call and how it ended (set_phi is recorded with the
\* kind of its argument in the field side)
Mesh1dStep(r, op, side, value) ==
    /\ mesh1d' = [mesh1d EXCEPT !.object = r.value]
    /\ outcome' = r.exc
    /\ call' = [op |-> op, side |-> side, value |-> value]
    /\ UNCHANGED <<pc, mesh_vars, axis_grid>>

Built(cls) == pc = "mesh1d" /\ mesh1d.state = "built" /\ mesh1d.args.cls = cls

\* heat_diffusion_mesh(x, n_cells, mesh_type)
heat_diffusion_mesh_new ==
    /\ pc = "mesh1d"
    /\ mesh1d.state = "pending"
    /\ mesh1d.args.cls = "heat_diffusion_mesh"
    /\ LET a == mesh1d.args
           r == heat_diffusion_mesh_init(a.x, a.n_cells, a.mesh_type) IN
        /\ mesh1d' = [mesh1d EXCEPT !.state = IF r.exc = NoExc THEN "built" ELSE "failed",
                                    !.object = r.value]
        /\ outcome' = r.exc
    /\ call' = [op |-> "__init__", side |-> "", value |-> 0]
    /\ UNCHANGED <<pc, mesh_vars, axis_grid>>

\* linear_convection_mesh(x, n_cells, mesh_type, convection_coefficient, discretization_type)
linear_convection_mesh_new ==
    /\ pc = "mesh1d"
    /\ mesh1d.state = "pending"
    /\ mesh1d.args.cls = "linear_convection_mesh"
    /\ LET a == mesh1d.args
           r == linear_convection_mesh_init(a.x, a.n_cells, a.mesh_type,
                                            a.convection_coefficient,
                                            a.discretization_type) IN
        /\ mesh1d' = [mesh1d EXCEPT !.state = IF r.exc = NoExc THEN "built" ELSE "failed",
                                    !.object = r.value]
        /\ outcome' = r.exc
    /\ call' = [op |-> "__init__", side |-> "", value |-> 0]
    /\ UNCHANGED <<pc, mesh_vars, axis_grid>>

\* mesh.set_cell_temperature(temperature) on a heat_diffusion_mesh
Heat_set_cell_temperature(temperature) ==
    /\ Built("heat_diffusion_mesh")
    /\ Mesh1dStep(heat_diffusion_mesh_set_cell_temperature(mesh1d.object, temperature),
                  "set_cell_temperature", "", temperature)

\* mesh.set_thermal_diffusivity(thermal_diffusivity) on a heat_diffusion_mesh
Heat_set_thermal_diffusivity(thermal_diffusivity) ==
    /\ Built("heat_diffusion_mesh")
    /\ Mesh1dStep(heat_diffusion_mesh_set_thermal_diffusivity(mesh1d.object,
                                                              thermal_diffusivity),
                  "set_thermal_diffusivity", "", thermal_diffusivity)

\* mesh.set_dirichlet_boundary(side, temperature) on a heat_diffusion_mesh
Heat_set_dirichlet_boundary(side, temperature) ==
    /\ Built("heat_diffusion_mesh")
    /\ Mesh1dStep(heat_diffusion_mesh_set_dirichlet_boundary(mesh1d.object, side, temperature),
                  "set_dirichlet_boundary", side, temperature)

\* mesh.set_neumann_boundary(side, flux) on a heat_diffusion_mesh
Heat_set_neumann_boundary(side, flux) ==
    /\ Built("heat_diffusion_mesh")
    /\ Mesh1dStep(heat_diffusion_mesh_set_neumann_boundary(mesh1d.object, side, flux),
                  "set_neumann_boundary", side, flux)

\* mesh.set_phi(phi) on a linear_convection_mesh
Convection_set_phi(phi) ==
    /\ Built("linear_convection_mesh")
    /\ Mesh1dStep(linear_convection_mesh_set_phi(mesh1d.object, phi),
                  "set_phi", phi.kind, phi.number)

\* mesh.set_dirichlet_boundary(side, phi) on a linear_convection_mesh
Convection_set_dirichlet_boundary(side, phi) ==
    /\ Built("linear_convection_mesh")
    /\ Mesh1dStep(linear_convection_mesh_set_dirichlet_boundary(mesh1d.object, side, phi),
                  "set_dirichlet_boundary", side, phi)

\* mesh.set_right_boundary() on a linear_convection_mesh
Convection_set_right_boundary ==
    /\ Built("linear_convection_mesh")
    /\ Mesh1dStep(linear_convection_mesh_set_right_boundary(mesh1d.object),
                  "set_right_boundary", "", 0)

-----------------------------------------------------------------------------
(* Specifications *)

NoMesh ==
    /\ grid = EmptyDict
    /\ differentiation_matrix = EmptyDict
    /\ boundary_condition = EmptyDict
    /\ laplacian = Unset
    /\ call = NoCall
    /\ outcome = NoExc
    /\ calls = <<>>

\* any constructor arguments, then any sequence of boundary calls
Init ==
    /\ pc = "new"
    /\ dimensions \in DimensionInputs
    /\ n_cells \in NCellsInputs
    /\ cordinates \in CordinatesInputs
    /\ mesh_type \in MeshTypeInputs
    /\ NoMesh
    /\ axis_grid = NoGrid
    /\ mesh1d = NoMesh1d

Next ==
    \/ CartesianMesh_init /\ UNCHANGED calls
    \/ \E side \in Sides, phi \in Values :
          CartesianMesh_set_dirichlet_boundary(side, phi) /\ UNCHANGED calls
    \/ \E side \in Sides, flux \in Values :
          CartesianMesh_set_neumann_boundary(side, flux) /\ UNCHANGED calls

Spec == Init /\ [][Next]_vars

\* the meshes of the test fixtures and every one-dimensional mesh over (0, 1),
\* with the calls made on them recorded
InitTest ==
    /\ pc = "new"
    /\ \/ dimensions = 1 /\ n_cells \in {<<n>> : n \in 1..MaxCells}
          /\ cordinates = << <<0, 1>> >>
       \/ dimensions = 2 /\ n_cells = <<3, 4>> /\ cordinates = << <<0, 1>>, <<0, 2>> >>
       \/ dimensions = 2 /\ n_cells = <<3, 4>> /\ cordinates = << <<0, 3>>, <<0, 2>> >>
    /\ mesh_type = FiniteVolume
    /\ NoMesh
    /\ axis_grid = NoGrid
    /\ mesh1d = NoMesh1d

NextTest ==
    \/ CartesianMesh_init /\ UNCHANGED calls
    \/ /\ Len(calls) < MaxCalls
       /\ \E side \in Sides, phi \in Values :
             CartesianMesh_set_dirichlet_boundary(side, phi)
       /\ calls' = Append(calls, call')
    \/ /\ Len(calls) < MaxCalls
       /\ \E side \in Sides, flux \in Values :
             CartesianMesh_set_neumann_boundary(side, flux)
       /\ calls' = Append(calls, call')

SpecTest == InitTest /\ [][NextTest]_vars

\* any arguments of a grid constructed on its own
InitGrid ==
    /\ pc = "grid"
    /\ dimensions = 0
    /\ n_cells = <<>>
    /\ cordinates = <<>>
    /\ mesh_type = EmptyString
    /\ NoMesh
    /\ axis_grid \in [n_cells : -1..MaxCells, cordinates : BoundsInputs,
                      mesh_type : MeshTypeInputs, exc : {"pending"}, value : {Unset}]
    /\ mesh1d = NoMesh1d

NextGrid == grid_construct

SpecGrid == InitGrid /\ [][NextGrid]_vars

\* any arguments of a heat_diffusion_mesh or a linear_convection_mesh, then the
\* calls made on it, recorded
InitMesher ==
    /\ pc = "mesh1d"
    /\ dimensions = 0
    /\ n_cells = <<>>
    /\ cordinates = <<>>
    /\ mesh_type = EmptyString
    /\ NoMesh
    /\ axis_grid = NoGrid
    /\ mesh1d \in [args : HeatArgs \cup ConvectionArgs, state : {"pending"}, object : {Unset}]

Recorded == Len(calls) < MaxCalls /\ calls' = Append(calls, call')

NextMesher ==
    \/ heat_diffusion_mesh_new /\ UNCHANGED calls
    \/ linear_convection_mesh_new /\ UNCHANGED calls
    \/ \E temperature \in Temperatures :
          Heat_set_cell_temperature(temperature) /\ Recorded
    \/ \E thermal_diffusivity \in Diffusivities :
          Heat_set_thermal_diffusivity(thermal_diffusivity) /\ Recorded
    \/ \E side \in Sides1D, temperature \in Temperatures :
          Heat_set_dirichlet_boundary(side, temperature) /\ Recorded
    \/ \E side \in Sides1D, flux \in Fluxes :
          Heat_set_neumann_boundary(side, flux) /\ Recorded
    \/ \E phi \in PhiInputs : Convection_set_phi(phi) /\ Recorded
    \/ \E side \in Sides1D, phi \in Temperatures :
          Convection_set_dirichlet_boundary(side, phi) /\ Recorded
    \/ Convection_set_right_boundary /\ Recorded

SpecMesher == InitMesher /\ [][NextMesher]_vars

\* the calls of test_laplacian_matrix, in its order
SteadyScenario ==
    <<[op |-> "set_dirichlet_boundary", side |-> "left", value |-> 30],
      [op |-> "set_dirichlet_boundary", side |-> "right", value |-> 30],
      [op |-> "set_dirichlet_boundary", side |-> "bottom", value |-> 30],
      [op |-> "set_neumann_boundary", side |-> "top", value |-> -10]>>

\* the steady_mesh fixture, on which the calls of the scenario are made in any order
\* and recorded, as many as the scenario has
InitSteady ==
    /\ pc = "new"
    /\ dimensions = 2
    /\ n_cells = <<3, 4>>
    /\ cordinates = << <<0, 3>>, <<0, 2>> >>
    /\ mesh_type = FiniteVolume
    /\ NoMesh
    /\ axis_grid = NoGrid
    /\ mesh1d = NoMesh1d

NextSteady ==
    \/ CartesianMesh_init /\ UNCHANGED calls
    \/ /\ Len(calls) < Len(SteadyScenario)
       /\ \E i \in 1..Len(SteadyScenario) :
             /\ SteadyScenario[i].op = "set_dirichlet_boundary"
             /\ CartesianMesh_set_dirichlet_boundary(SteadyScenario[i].side,
                                                     SteadyScenario[i].value)
       /\ calls' = Append(calls, call')
    \/ /\ Len(calls) < Len(SteadyScenario)
       /\ \E i \in 1..Len(SteadyScenario) :
             /\ SteadyScenario[i].op = "set_neumann_boundary"
             /\ CartesianMesh_set_neumann_boundary(SteadyScenario[i].side,
                                                   SteadyScenario[i].value)
       /\ calls' = Append(calls, call')

SpecSteady == InitSteady /\ [][NextSteady]_vars

-----------------------------------------------------------------------------
(* State of the mesh read by the claims *)

x_matrix == get_matrix(differentiation_matrix["x_differentiation_matrix"])
y_matrix == get_matrix(differentiation_matrix["y_differentiation_matrix"])
x_array == boundary_condition["x_boundary_condition_array"].boundary_condition_array
y_array == boundary_condition["y_boundary_condition_array"].boundary_condition_array
x_cell_width == grid["x_grid"].cell_width
y_cell_width == grid["y_grid"].cell_width

BoundaryCalls == {"set_dirichlet_boundary", "set_neumann_boundary"}

\* the 1-based position a side addresses in an axis of n cells
SidePosition(side, n) == IF side \in {"left", "top"} THEN 1 ELSE n

\* a vector that is zero except for v at position k
ZeroExcept(n, k, v) == [i \in 1..n |-> IF i = k THEN v ELSE R(0)]

Constructed == pc = "mesh" /\ dimensions \in {1, 2}

-----------------------------------------------------------------------------
(* Claims *)

\* C1: in every state reached from construction by boundary calls, whether they
\* return or raise, laplacian equals what set_laplacian computes from the current
\* differentiation matrices and cell widths.
C1_LaplacianConsistent ==
    Constructed =>
        laplacian = set_laplacian(dimensions, grid, differentiation_matrix, laplacian).value

\* C2: a boundary call that raises leaves every differentiation matrix, every
\* boundary condition array and the laplacian as they were before the call.
C2_RaiseLeavesMeshUnchanged ==
    [][(pc = "mesh" /\ call'.op \in BoundaryCalls /\ outcome' # NoExc)
         => UNCHANGED <<differentiation_matrix, boundary_condition, laplacian>>]_vars

\* C3: a boundary call whose side is not valid for the mesh raises: any label
\* outside left/right/top/bottom on any mesh, and top/bottom on a 1D mesh.
C3_InvalidSideRaises ==
    (/\ Constructed
     /\ call.op \in BoundaryCalls
     /\ \/ call.side \notin {"left", "right", "top", "bottom"}
        \/ dimensions = 1 /\ call.side \in {"top", "bottom"})
    => outcome # NoExc

\* C4: on a 2D mesh set_dirichlet_boundary(side, phi) with side top or bottom
\* returns normally, sets the y matrix diagonal entry at that side's index to -3 and
\* the y array entry there to 2*phi, and leaves the x matrix and x array unchanged.
C4_DirichletTopBottom ==
    [][(/\ pc = "mesh"
        /\ dimensions = 2
        /\ call'.op = "set_dirichlet_boundary"
        /\ call'.side \in {"top", "bottom"})
       => LET k == SidePosition(call'.side, n_cells[2]) IN
          /\ outcome' = NoExc
          /\ y_matrix'[k][k] = R(-3)
          /\ y_array'[k] = R(2 * call'.value)
          /\ x_matrix' = x_matrix
          /\ x_array' = x_array]_vars

\* C5: on a 1D or 2D mesh with N >= 1 cells on x, set_dirichlet_boundary(side, phi)
\* with side left or right returns normally and sets the x matrix diagonal entry at
\* the side's index to -3 and the x array entry there to 2*phi; left then right with
\* the same phi on a fresh N=4 mesh gives the matrix with diagonal (-3,-2,-2,-3) and
\* off-diagonals 1, and the array (2*phi, 0, 0, 2*phi).
C5_DirichletLeftRight ==
    /\ (/\ Constructed
        /\ call.op = "set_dirichlet_boundary"
        /\ call.side \in {"left", "right"})
       => LET k == SidePosition(call.side, n_cells[1]) IN
          /\ outcome = NoExc
          /\ x_matrix[k][k] = R(-3)
          /\ x_array[k] = R(2 * call.value)
    /\ \A phi \in Values :
         (/\ pc = "mesh"
          /\ n_cells = <<4>>
          /\ calls = <<[op |-> "set_dirichlet_boundary", side |-> "left", value |-> phi],
                       [op |-> "set_dirichlet_boundary", side |-> "right", value |-> phi]>>)
         => /\ x_matrix = RatMatrix(<< <<-3, 1, 0, 0>>, <<1, -2, 1, 0>>,
                                       <<0, 1, -2, 1>>, <<0, 0, 1, -3>> >>)
            /\ x_array = RatVector(<<2 * phi, 0, 0, 2 * phi>>)

\* C5 witness: left then right Dirichlet with the same value has been applied to the
\* fresh N=4 mesh
C5_Witness ==
    /\ pc = "mesh"
    /\ n_cells = <<4>>
    /\ outcome = NoExc
    /\ calls = <<[op |-> "set_dirichlet_boundary", side |-> "left", value |-> 30],
                 [op |-> "set_dirichlet_boundary", side |-> "right", value |-> 30]>>

\* C6: on a mesh with N >= 2 cells set_neumann_boundary(side, flux) with side left or
\* right returns normally and changes the x matrix only in the diagonal entry at the
\* side's index, which becomes -1; after set_dirichlet_boundary("right", 30) and
\* set_neumann_boundary("left", -10) on the 1D N=4 mesh over (0,1) the laplacian is
\* [[-1,1,0,0],[1,-2,1,0],[0,1,-2,1],[0,0,1,-3]] * 16.
C6_NeumannLeftRight ==
    [][(/\ pc = "mesh"
        /\ dimensions \in {1, 2}
        /\ n_cells[1] >= 2
        /\ call'.op = "set_neumann_boundary"
        /\ call'.side \in {"left", "right"})
       => LET k == SidePosition(call'.side, n_cells[1]) IN
          /\ outcome' = NoExc
          /\ x_matrix' = [x_matrix EXCEPT ![k][k] = R(-1)]
          /\ (/\ n_cells = <<4>>
              /\ calls' = <<[op |-> "set_dirichlet_boundary", side |-> "right", value |-> 30],
                            [op |-> "set_neumann_boundary", side |-> "left", value |-> -10]>>)
             => laplacian' = MatScale(RatMatrix(<< <<-1, 1, 0, 0>>, <<1, -2, 1, 0>>,
                                                   <<0, 1, -2, 1>>, <<0, 0, 1, -3>> >>),
                                      R(16))]_vars

\* C7: a Neumann boundary with flux f on a side of an axis of cell width w sets the
\* boundary array entry at the side's index to f / w (finite_volume) and leaves the
\* other entries unchanged.
C7_NeumannArrayFluxOverWidth ==
    [][(/\ pc = "mesh"
        /\ call'.op = "set_neumann_boundary"
        /\ \/ dimensions \in {1, 2} /\ call'.side \in {"left", "right"}
           \/ dimensions = 2 /\ call'.side \in {"top", "bottom"})
       => IF call'.side \in {"left", "right"}
          THEN x_array' = [x_array EXCEPT ![SidePosition(call'.side, n_cells[1])] =
                              RDiv(R(call'.value), x_cell_width)]
          ELSE y_array' = [y_array EXCEPT ![SidePosition(call'.side, n_cells[2])] =
                              RDiv(R(call'.value), y_cell_width)]]_vars

\* C8: set_neumann_boundary(side, flux) on a fresh mesh makes the targeted axis's
\* boundary array zero except at the side's index, where it is flux * cell_width:
\* [30*0.25,0,0,0] for left, flux 30, N=4 over (0,1); -10/3 on x and -10/2 on y for
\* the 2D mesh n_cells=[3,4] over (0,1),(0,2) with flux -10.
C8_NeumannArrayFluxTimesWidth ==
    (/\ pc = "mesh"
     /\ Len(calls) = 1
     /\ call.op = "set_neumann_boundary"
     /\ \/ call.side \in {"left", "right"}
        \/ dimensions = 2 /\ call.side \in {"top", "bottom"})
    => IF call.side \in {"left", "right"}
       THEN x_array = ZeroExcept(n_cells[1], SidePosition(call.side, n_cells[1]),
                                 RMul(R(call.value), x_cell_width))
       ELSE y_array = ZeroExcept(n_cells[2], SidePosition(call.side, n_cells[2]),
                                 RMul(R(call.value), y_cell_width))

\* C9: construction raises whenever dimensions > 2, or len(cordinates) # dimensions,
\* or len(n_cells) # dimensions, or mesh_type is not the supported scheme string, for
\* every integer dimensions and every mesh_type string.
C9_ConstructionRejects ==
    (/\ pc # "new"
     /\ \/ dimensions > 2
        \/ Len(cordinates) # dimensions
        \/ Len(n_cells) # dimensions
        \/ mesh_type # FiniteVolume)
    => pc = "failed" /\ outcome # NoExc

\* C10: constructing a grid raises for every n_cells < 1, for every bounds with
\* bounds[0] >= bounds[1], and for every mesh_type other than finite_volume and
\* finite_difference.
C10_GridRejects ==
    (/\ axis_grid.exc # "pending"
     /\ \/ axis_grid.n_cells < 1
        \/ axis_grid.cordinates[1] >= axis_grid.cordinates[2]
        \/ axis_grid.mesh_type \notin {FiniteVolume, FiniteDifference})
    => axis_grid.exc # NoExc /\ axis_grid.value = Unset

-----------------------------------------------------------------------------
(* State of the one-dimensional mesh read by the claims *)

Mesh1dArray(ref) == mesh1d.object.arrays[ref]
x_differentiation_matrix == Mesh1dArray(MatrixRef)
laplacian_matrix == Mesh1dArray(mesh1d.object.laplacian_matrix)
boundary_condition_array == Mesh1dArray(mesh1d.object.boundary_condition_array)
predictor_differentiation_matrix ==
    Mesh1dArray(mesh1d.object.predictor_differentiation_matrix)

Mesh1dBuilt == pc = "mesh1d" /\ mesh1d.state = "built"
IsMaccormack ==
    /\ Mesh1dBuilt
    /\ mesh1d.args.cls = "linear_convection_mesh"
    /\ mesh1d.args.discretization_type = Maccormack

\* the stencil (lower, middle, upper) of a mesh's matrix class
Stencil ==
    IF mesh1d.args.cls = "heat_diffusion_mesh" THEN <<R(1), R(-2), R(1)>>
    ELSE IF mesh1d.args.discretization_type = Upwind THEN <<R(1), R(-1), R(0)>>
    ELSE IF mesh1d.args.discretization_type = Central THEN <<Rat(1, 2), R(0), Rat(-1, 2)>>
    ELSE <<R(-1), R(1), R(0)>>

\* C12: a freshly constructed stencil matrix is N x N with [i][i-1] = lower,
\* [i][i] = middle, [i][i+1] = upper and every other entry 0, where (lower, middle,
\* upper) is (1,-2,1) for the standard matrix, (1,-1,0) for upwind, (0.5,0,-0.5) for
\* central and (-1,1,0) for MacCormack.
C12_FreshStencil ==
    (Mesh1dBuilt /\ calls = <<>>)
    => LET N == mesh1d.args.n_cells
           m == x_differentiation_matrix
       IN  /\ Len(m) = N
           /\ \A i \in 1..N :
                /\ Len(m[i]) = N
                /\ \A j \in 1..N :
                     m[i][j] = CASE j = i - 1 -> Stencil[1]
                                 [] j = i     -> Stencil[2]
                                 [] j = i + 1 -> Stencil[3]
                                 [] OTHER     -> R(0)

\* C12 witness: a MacCormack mesh of 4 cells has just been constructed
C12_Witness ==
    /\ IsMaccormack
    /\ calls = <<>>
    /\ mesh1d.args.n_cells = 4
    /\ x_differentiation_matrix[2] = <<R(-1), R(1), R(0), R(0)>>

-----------------------------------------------------------------------------
(* Claims about the Laplacian of a two-dimensional mesh *)

\* the matrix test_laplacian_matrix asserts
SteadyLaplacian ==
    RatMatrix(<< <<-7, 1, 0, 4, 0, 0, 0, 0, 0, 0, 0, 0>>,
                 <<1, -6, 1, 0, 4, 0, 0, 0, 0, 0, 0, 0>>,
                 <<0, 1, -7, 0, 0, 4, 0, 0, 0, 0, 0, 0>>,
                 <<4, 0, 0, -11, 1, 0, 4, 0, 0, 0, 0, 0>>,
                 <<0, 4, 0, 1, -10, 1, 0, 4, 0, 0, 0, 0>>,
                 <<0, 0, 4, 0, 1, -11, 0, 0, 4, 0, 0, 0>>,
                 <<0, 0, 0, 4, 0, 0, -11, 1, 0, 4, 0, 0>>,
                 <<0, 0, 0, 0, 4, 0, 1, -10, 1, 0, 4, 0>>,
                 <<0, 0, 0, 0, 0, 4, 0, 1, -11, 0, 0, 4>>,
                 <<0, 0, 0, 0, 0, 0, 4, 0, 0, -15, 1, 0>>,
                 <<0, 0, 0, 0, 0, 0, 0, 4, 0, 1, -14, 1>>,
                 <<0, 0, 0, 0, 0, 0, 0, 0, 4, 0, 1, -15>> >>)

\* C13: on a 2D mesh with nx and ny cells, after successful boundary calls,
\* laplacian is the (nx*ny) x (nx*ny) matrix with, for k = iy*nx + ix and
\* l = jy*nx + jx, laplacian[k][l] = Dxx[ix][jx]*(iy = jy) + Dyy[iy][jy]*(ix = jx),
\* Dxx = x_matrix/x_cell_width^2 and Dyy = y_matrix/y_cell_width^2; on the mesh
\* n_cells=[3,4] over (0,3),(0,2) with Dirichlet on left, right and bottom and
\* Neumann on top it is the matrix asserted by test_laplacian_matrix.
C13_Laplacian2D ==
    /\ (pc = "mesh" /\ dimensions = 2 /\ outcome = NoExc)
       => LET nx == n_cells[1]
              ny == n_cells[2]
              wx2 == RMul(x_cell_width, x_cell_width)
              wy2 == RMul(y_cell_width, y_cell_width)
          IN  /\ Len(laplacian) = nx * ny
              /\ \A iy, jy \in 0..(ny - 1) : \A ix, jx \in 0..(nx - 1) :
                    laplacian[iy * nx + ix + 1][jy * nx + jx + 1] =
                        RAdd(IF iy = jy THEN RDiv(x_matrix[ix + 1][jx + 1], wx2) ELSE R(0),
                             IF ix = jx THEN RDiv(y_matrix[iy + 1][jy + 1], wy2) ELSE R(0))
    /\ (pc = "mesh" /\ calls = SteadyScenario) => laplacian = SteadyLaplacian

-----------------------------------------------------------------------------
(* Claims about the one-dimensional meshes *)

\* C14: for each scheme, each side and N >= 2, a Dirichlet boundary followed by a
\* Neumann boundary on the same side leaves the stencil matrix and the boundary
\* vector exactly as a Neumann boundary alone leaves those of a fresh mesh.
C14_NeumannOverwritesDirichlet ==
    (/\ Mesh1dBuilt
     /\ mesh1d.args.cls = "heat_diffusion_mesh"
     /\ mesh1d.args.n_cells >= 2
     /\ Len(calls) = 2
     /\ calls[1].op = "set_dirichlet_boundary"
     /\ calls[2].op = "set_neumann_boundary"
     /\ calls[1].side = calls[2].side
     /\ calls[2].side \in {"left", "right"})
    => LET a == mesh1d.args
           fresh == heat_diffusion_mesh_init(a.x, a.n_cells, a.mesh_type).value
           alone == heat_diffusion_mesh_set_neumann_boundary(
                        fresh, calls[2].side, calls[2].value).value
       IN  /\ outcome = NoExc
           /\ x_differentiation_matrix = alone.arrays[MatrixRef]
           /\ boundary_condition_array = alone.arrays[BoundaryRef]

\* C15: for a MacCormack stencil the predictor equals -transpose(differentiation
\* matrix) at construction and in every state reached through set_dirichlet_boundary,
\* set_right_boundary and set_phi of a linear_convection_mesh.
C15_PredictorFollowsMatrix ==
    IsMaccormack =>
        predictor_differentiation_matrix = MatNeg(transpose(x_differentiation_matrix))

\* C16: every stencil matrix stays tridiagonal: after any sequence of
\* set_dirichlet_boundary, set_neumann_boundary (either scheme, either side, N >= 2)
\* and, on a linear_convection_mesh, set_right_boundary, every entry [r][c] with
\* |r - c| > 1 is 0.
C16_StaysTridiagonal ==
    (Mesh1dBuilt /\ mesh1d.args.n_cells >= 2)
    => \A r, c \in 1..mesh1d.args.n_cells :
          Abs(r - c) > 1 => x_differentiation_matrix[r][c] = R(0)

\* C18: linear_convection_mesh.set_dirichlet_boundary(side, phi) with a side other
\* than "left" raises ValueError and leaves x_differentiation_matrix,
\* laplacian_matrix, predictor_differentiation_matrix, boundary_condition_array and
\* phi as they were before the call, for every mesh_type and discretization_type.
C18_ConvectionDirichletRejectsSide ==
    [][(/\ Built("linear_convection_mesh")
        /\ call'.op = "set_dirichlet_boundary"
        /\ call'.side # "left")
       => /\ outcome' = "ValueError"
          /\ mesh1d'.object.arrays = mesh1d.object.arrays
          /\ mesh1d'.object.laplacian_matrix = mesh1d.object.laplacian_matrix
          /\ mesh1d'.object.boundary_condition_array =
                 mesh1d.object.boundary_condition_array]_vars

-----------------------------------------------------------------------------
(* Claims about the structure of a CartesianMesh *)

\* the rows of matrix m and the entries of array a other than those at position k
\* are the same in m2 and a2
OnlyAt(k, m, m2, a, a2) ==
    /\ Len(m2) = Len(m)
    /\ Len(a2) = Len(a)
    /\ \A i \in 1..Len(m) : i # k => m2[i] = m[i]
    /\ \A i \in 1..Len(a) : i # k => a2[i] = a[i]

\* C17: a boundary call on a CartesianMesh leaves dimensions, n_cells, cordinates,
\* every grid and the per-axis objects in place; a call on an x side leaves the y
\* matrix and y array unchanged and a call on a y side the x matrix and x array;
\* within the targeted axis only the matrix row and the array entry at the side's
\* boundary index may change.
C17_BoundaryCallFrame ==
    [][(pc = "mesh" /\ call'.op \in BoundaryCalls)
       => /\ UNCHANGED <<dimensions, n_cells, cordinates, mesh_type, grid>>
          /\ DOMAIN differentiation_matrix' = DOMAIN differentiation_matrix
          /\ DOMAIN boundary_condition' = DOMAIN boundary_condition
          /\ \A k \in DOMAIN differentiation_matrix :
                differentiation_matrix'[k].n_cells = differentiation_matrix[k].n_cells
          /\ \A k \in DOMAIN boundary_condition :
                boundary_condition'[k].mesh_type = boundary_condition[k].mesh_type
          /\ (dimensions >= 1 /\ call'.side \in {"left", "right"})
             => /\ OnlyAt(SidePosition(call'.side, n_cells[1]),
                          x_matrix, x_matrix', x_array, x_array')
                /\ dimensions = 2 => y_matrix' = y_matrix /\ y_array' = y_array
          /\ (dimensions >= 1 /\ call'.side \in {"top", "bottom"})
             => /\ x_matrix' = x_matrix /\ x_array' = x_array
                /\ dimensions = 2
                   => OnlyAt(SidePosition(call'.side, n_cells[2]),
                             y_matrix, y_matrix', y_array, y_array')]_vars

\* C17 witness: set_dirichlet_boundary("right", 30) has changed the last row of the x
\* matrix and the last entry of the x array of a 2D mesh with 2 cells on x
C17_Witness ==
    /\ pc = "mesh"
    /\ n_cells = <<2, 3>>
    /\ call = [op |-> "set_dirichlet_boundary", side |-> "right", value |-> 30]
    /\ outcome = NoExc
    /\ x_matrix = RatMatrix(<< <<-2, 1>>, <<1, -3>> >>)
    /\ x_array = RatVector(<<0, 60>>)
    /\ y_matrix = RatMatrix(<< <<-2, 1, 0>>, <<1, -2, 1>>, <<0, 1, -2>> >>)

\* C19: every CartesianMesh whose construction returned has dimensions in {1, 2},
\* exactly one grid, differentiation matrix and boundary array per active axis ("x"
\* always, "y" only when dimensions = 2), and a laplacian that is a square matrix of
\* side the product of the per-axis cell counts; no accepted input yields a mesh
\* without a laplacian.
C19_ConstructedMeshComplete ==
    pc = "mesh" =>
        /\ dimensions \notin {1, 2} => laplacian # Unset
        /\ dimensions \in {1, 2}
        /\ DOMAIN grid = {grid_key(index) : index \in range(dimensions)}
        /\ DOMAIN differentiation_matrix =
               {differentiation_matrix_key(index) : index \in range(dimensions)}
        /\ DOMAIN boundary_condition =
               {boundary_condition_key(index) : index \in range(dimensions)}
        /\ LET total == IF dimensions = 1 THEN n_cells[1] ELSE n_cells[1] * n_cells[2]
           IN  /\ Len(laplacian) = total
               /\ \A i \in 1..total : Len(laplacian[i]) = total

====
